---- MODULE Spec2Model ----
(***************************************************************************)
(* Trip Splitter: the per-person receipt breakdown                         *)
(* (frontend/src/lib/calculations.ts), the balance aggregation and the     *)
(* greedy settlement of a trip.                                            *)
(*                                                                         *)
(* Amounts are JavaScript numbers.  calculatePerPersonBreakdown divides    *)
(* with "/" and never rounds, so its values are fractions of a cent; they  *)
(* are modelled as exact rationals <<n, d>> in lowest terms with d > 0.    *)
(* (An IEEE double differs from the exact quotient by a relative error of  *)
(* 2^-53, far below the one-cent tolerances the properties speak of.)      *)
(***************************************************************************)
EXTENDS Integers, Sequences, FiniteSets, TLC

VARIABLES
    pc,             \* position of the computation under study
    receipt,        \* ReceiptData handed to calculatePerPersonBreakdown
    result,         \* PerPersonBreakdown[] it returned
    balances,       \* net balances handed to the settlement optimizer (cents)
    creditors,      \* optimizer: participants still owed money, largest first
    debtors,        \* optimizer: participants still owing, most negative first
    transactions,   \* optimizer: settlement transactions emitted so far
    trip,           \* snapshot handed to the balance aggregator
    netBalances,    \* aggregator: signed net balance of every participant
    expensesDone,   \* aggregator: number of expenses already applied
    paymentsDone,   \* aggregator: number of direct payments already applied
    storedPayments, \* rows of receipt_payments of the receipt (amounts in hundredths)
    shownPayments,  \* receipt.payments: the rows as last fetched by the page
    totalCents,     \* receipt.total_cents: number | null
    editPayments,   \* the payers being edited (PayerPayment[])
    editingPayers,  \* whether the payer editor is open
    payerError,     \* message under the payer editor, or null
    error,          \* message of the page, or null
    requests,       \* writes sent to the receipt_payments table so far
    itemAmountCents,\* unit_price_cents * quantity of the line item being assigned
    storedAssignments, \* rows of item_assignments of the line item
    assignments,    \* item.assignments: the rows as last fetched by the page
    calls,          \* handleAssignmentChange calls so far, each with the request it awaits
    newRatios,      \* the ratios the last committed amount asked for
    editingId,      \* chips popover: participant being edited, or null
    editingShares   \* chips popover: the shares shown

vars == <<pc, receipt, result, balances, creditors, debtors, transactions,
          trip, netBalances, expensesDone, paymentsDone,
          storedPayments, shownPayments, totalCents, editPayments, editingPayers,
          payerError, error, requests,
          itemAmountCents, storedAssignments, assignments, calls,
          newRatios, editingId, editingShares>>
payerVars == <<storedPayments, shownPayments, totalCents, editPayments, editingPayers,
               payerError, error, requests>>
assignVars == <<itemAmountCents, storedAssignments, assignments, calls,
                newRatios, editingId, editingShares>>
breakdownVars == <<receipt, result>>
settleVars == <<balances, creditors, debtors, transactions>>
aggregateVars == <<trip, netBalances, expensesDone, paymentsDone>>

NULL == <<>>      \* tip_cents: number | null is <<>> or <<cents>>

\* no line item being assigned
NoAssigning ==
    /\ itemAmountCents = 0
    /\ storedAssignments = <<>>
    /\ assignments = <<>>
    /\ calls = <<>>
    /\ newRatios = <<>>
    /\ editingId = NULL
    /\ editingShares = 1

\* the page's editors untouched
NoEditing ==
    /\ NoAssigning
    /\ storedPayments = <<>>
    /\ shownPayments = <<>>
    /\ totalCents = NULL
    /\ editPayments = <<>>
    /\ editingPayers = FALSE
    /\ payerError = NULL
    /\ error = NULL
    /\ requests = <<>>

(***************************************************************************)
(* Bounds of the explored inputs.                                          *)
(***************************************************************************)
MaxShares == 2     \* largest shares weight of an assignment
MaxBalance == 3    \* small net balances range over -MaxBalance..MaxBalance
MaxExpenses == 2   \* expenses of a trip snapshot
MaxDirectPayments == 1   \* direct payments of a trip snapshot

Participants == {"p1", "p2"}
TripParticipants == Participants \cup {"p3"}

(***************************************************************************)
(* Rational arithmetic for JavaScript numbers.                             *)
(***************************************************************************)
Abs(x) == IF x < 0 THEN -x ELSE x

RECURSIVE GCD(_, _)
GCD(a, b) == IF b = 0 THEN a ELSE GCD(b, a % b)

Rat(n, d) ==
    LET g == GCD(Abs(n), Abs(d))
        s == IF d < 0 THEN -1 ELSE 1
    IN  IF n = 0 THEN <<0, 1>> ELSE <<s * (n \div g), s * (d \div g)>>

Num(c) == <<c, 1>>
RAdd(x, y) == Rat(x[1] * y[2] + y[1] * x[2], x[2] * y[2])
RSub(x, y) == Rat(x[1] * y[2] - y[1] * x[2], x[2] * y[2])
RMul(x, y) ==
    LET g1 == GCD(Abs(x[1]), y[2])
        g2 == GCD(Abs(y[1]), x[2])
    IN  Rat((x[1] \div g1) * (y[1] \div g2), (x[2] \div g2) * (y[2] \div g1))
RDiv(x, y) == RMul(x, IF y[1] < 0 THEN <<-y[2], -y[1]>> ELSE <<y[2], y[1]>>)
RLess(x, y) == x[1] * y[2] < y[1] * x[2]
RLeq(x, y) == x[1] * y[2] <= y[1] * x[2]
RAbs(x) == <<Abs(x[1]), x[2]>>
IsInteger(x) == x[2] = 1

RECURSIVE RSum(_)
RSum(s) == IF s = <<>> THEN Num(0) ELSE RAdd(Head(s), RSum(Tail(s)))

RECURSIVE Sum(_)
Sum(s) == IF s = <<>> THEN 0 ELSE Head(s) + Sum(Tail(s))

(***************************************************************************)
(* calculatePerPersonBreakdown                                             *)
(***************************************************************************)
\* faulty variant: forgets the quantity
itemTotalUnitPrice(item) == item.unit_price_cents

itemTotal(item) == item.unit_price_cents * item.quantity

totalShares(item) ==
    Sum([k \in 1..Len(item.assignments) |-> item.assignments[k].shares])

\* faulty variant: splits equally, ignoring the shares
participantShareEqualSplit(item, assignment) ==
    Rat(itemTotal(item), Len(item.assignments))

\* faulty variant: rounds the value of one share down before multiplying
participantSharePerUnit(item, assignment) ==
    Num((itemTotal(item) \div totalShares(item)) * assignment.shares)

participantShare(item, assignment) ==
    Rat(itemTotal(item) * assignment.shares, totalShares(item))

\* faulty variant: never finds the participant's entry
hasNever(breakdown, participantId) == FALSE

has(breakdown, participantId) ==
    \E k \in 1..Len(breakdown) : breakdown[k].participantId = participantId

newEntry(participantId) ==
    [participantId |-> participantId, itemsTotal |-> Num(0),
     taxShare |-> Num(0), tipShare |-> Num(0), total |-> Num(0)]

\* body of item.assignments.forEach: one assignment of an item with totalShares > 0
addAssignment(acc, item, assignment) ==
    LET p == assignment.participant_id
        share == participantShare(item, assignment)
        current == IF p \in DOMAIN acc.participantItemTotals
                   THEN acc.participantItemTotals[p] ELSE Num(0)
        b1 == IF has(acc.breakdown, p) THEN acc.breakdown
              ELSE Append(acc.breakdown, newEntry(p))
    IN  [participantItemTotals |->
            [q \in DOMAIN acc.participantItemTotals \cup {p} |->
                IF q = p THEN RAdd(current, share)
                ELSE acc.participantItemTotals[q]],
         totalAssignedAmount |-> RAdd(acc.totalAssignedAmount, share),
         breakdown |->
            [k \in 1..Len(b1) |->
                IF b1[k].participantId = p
                THEN [b1[k] EXCEPT !.itemsTotal = RAdd(@, share)]
                ELSE b1[k]]]

RECURSIVE forEachAssignment(_, _, _)
forEachAssignment(acc, item, k) ==
    IF k > Len(item.assignments) THEN acc
    ELSE forEachAssignment(addAssignment(acc, item, item.assignments[k]), item, k + 1)

\* faulty variant: lets an item with zero total shares through
isAssignedNonNegative(item) == totalShares(item) >= 0

\* faulty variant: tests for assignments instead of positive total shares
isAssignedAnyone(item) == Len(item.assignments) > 0

isAssigned(item) == totalShares(item) > 0

RECURSIVE forEachItem(_, _, _)
forEachItem(acc, items, i) ==
    IF i > Len(items) THEN acc
    ELSE forEachItem(IF isAssigned(items[i])
                     THEN forEachAssignment(acc, items[i], 1) ELSE acc,
                     items, i + 1)

\* faulty variant: takes the first tax line only
taxTotalFirstLine(r) ==
    IF r.tax_lines = <<>> THEN 0 ELSE r.tax_lines[1].amount_cents

taxTotal(r) == Sum([k \in 1..Len(r.tax_lines) |-> r.tax_lines[k].amount_cents])

\* faulty variant: a null tip counts as a tip of 400
tipTotalDefault(r) == IF r.tip_cents = NULL THEN 400 ELSE r.tip_cents[1]

tipTotal(r) == IF r.tip_cents = NULL THEN 0 ELSE r.tip_cents[1]

prorate(amount, itemsShare, totalAssignedAmount) ==
    RDiv(RMul(Num(amount), itemsShare), totalAssignedAmount)

\* faulty variant: leaves the tip share out of the total
entryTotalNoTip(entry) == RAdd(entry.itemsTotal, entry.taxShare)

entryTotal(entry) == RAdd(RAdd(entry.itemsTotal, entry.taxShare), entry.tipShare)

prorateEntry(entry, r, acc) ==
    LET p == entry.participantId
        itemsShare == IF p \in DOMAIN acc.participantItemTotals
                      THEN acc.participantItemTotals[p] ELSE Num(0)
        e1 == IF RLess(Num(0), acc.totalAssignedAmount)
              THEN [entry EXCEPT
                      !.taxShare = prorate(taxTotal(r), itemsShare, acc.totalAssignedAmount),
                      !.tipShare = prorate(tipTotal(r), itemsShare, acc.totalAssignedAmount)]
              ELSE entry
    IN  [e1 EXCEPT !.total = entryTotal(e1)]

\* faulty variant: an entry goes in front of the entries of equal total
RECURSIVE insertSortedTiesFirst(_, _)
insertSortedTiesFirst(sorted, e) ==
    IF sorted = <<>> THEN <<e>>
    ELSE IF RLeq(Head(sorted).total, e.total) THEN <<e>> \o sorted
    ELSE <<Head(sorted)>> \o insertSortedTiesFirst(Tail(sorted), e)

\* Array.prototype.sort with (a, b) => b.total - a.total: stable, descending
RECURSIVE insertSorted(_, _)
insertSorted(sorted, e) ==
    IF sorted = <<>> THEN <<e>>
    ELSE IF RLess(Head(sorted).total, e.total) THEN <<e>> \o sorted
    ELSE <<Head(sorted)>> \o insertSorted(Tail(sorted), e)

RECURSIVE sortByTotal(_, _)
sortByTotal(sorted, rest) ==
    IF rest = <<>> THEN sorted
    ELSE sortByTotal(insertSorted(sorted, Head(rest)), Tail(rest))

calculatePerPersonBreakdown(r) ==
    LET acc0 == [participantItemTotals |-> <<>>,
                 totalAssignedAmount |-> Num(0),
                 breakdown |-> <<>>]
        acc == forEachItem(acc0, r.line_items, 1)
        entries == [k \in 1..Len(acc.breakdown) |-> prorateEntry(acc.breakdown[k], r, acc)]
    IN  sortByTotal(<<>>, entries)

(***************************************************************************)
(* Inputs                                                                  *)
(***************************************************************************)
\* <<unit_price_cents, quantity>>: a free item, an amount that does not divide
\* by three, and the amounts of the documented examples
ItemAmounts == {<<0, 1>>, <<100, 1>>, <<1000, 1>>, <<1000, 2>>, <<3000, 1>>}
ShareValues == 0..MaxShares

Assignments == [participant_id : Participants, shares : ShareValues]

\* an item's assignments name each participant at most once
\* (UNIQUE (line_item_id, participant_id))
AssignmentLists ==
    {<<>>} \cup {<<a>> : a \in Assignments}
    \cup {ab \in Assignments \X Assignments : ab[1].participant_id /= ab[2].participant_id}

LineItems ==
    {[unit_price_cents |-> pq[1], quantity |-> pq[2], assignments |-> as] :
        pq \in ItemAmounts, as \in AssignmentLists}

LineItemLists ==
    {<<>>} \cup {<<i>> : i \in LineItems} \cup (LineItems \X LineItems)

TaxLineLists ==
    {<<>>, <<[amount_cents |-> 300]>>, <<[amount_cents |-> 50], [amount_cents |-> 30]>>}

TipValues == {NULL, <<0>>, <<400>>}

\* small balances around the tolerance, and the amounts of scenario C
BalanceValues == (-MaxBalance..MaxBalance) \cup {5000, -3000, -2000}

Receipts ==
    [line_items : LineItemLists, tax_lines : TaxLineLists, tip_cents : TipValues]

\* 100 cents split 1:2, with two tax lines and a tip
SplitInThirds ==
    [line_items |-> <<[unit_price_cents |-> 100, quantity |-> 1,
                       assignments |-> <<[participant_id |-> "p1", shares |-> 1],
                                         [participant_id |-> "p2", shares |-> 2]>>]>>,
     tax_lines |-> <<[amount_cents |-> 50], [amount_cents |-> 30]>>, tip_cents |-> <<400>>]

\* receipts of a trip: scenarios A and B, a split in thirds with tax and tip,
\* a receipt with an unassigned item, a receipt with nothing assigned
TripReceipts ==
    { [line_items |-> <<[unit_price_cents |-> 3000, quantity |-> 1,
                         assignments |-> <<[participant_id |-> "p1", shares |-> 2],
                                           [participant_id |-> "p2", shares |-> 1]>>]>>,
       tax_lines |-> <<>>, tip_cents |-> NULL],
      [line_items |-> <<[unit_price_cents |-> 1000, quantity |-> 2,
                         assignments |-> <<[participant_id |-> "p1", shares |-> 1]>>],
                        [unit_price_cents |-> 1000, quantity |-> 1,
                         assignments |-> <<[participant_id |-> "p2", shares |-> 1]>>]>>,
       tax_lines |-> <<[amount_cents |-> 300]>>, tip_cents |-> NULL],
      SplitInThirds,
      [line_items |-> <<[unit_price_cents |-> 1000, quantity |-> 1,
                         assignments |-> <<[participant_id |-> "p1", shares |-> 1]>>],
                        [unit_price_cents |-> 3000, quantity |-> 1, assignments |-> <<>>]>>,
       tax_lines |-> <<[amount_cents |-> 300]>>, tip_cents |-> NULL],
      [line_items |-> <<[unit_price_cents |-> 1000, quantity |-> 1, assignments |-> <<>>]>>,
       tax_lines |-> <<[amount_cents |-> 300]>>, tip_cents |-> <<400>>] }

\* subtotal + taxes + tip
expenseTotal(r) ==
    Sum([i \in 1..Len(r.line_items) |->
           r.line_items[i].unit_price_cents * r.line_items[i].quantity])
    + Sum([k \in 1..Len(r.tax_lines) |-> r.tax_lines[k].amount_cents])
    + (IF r.tip_cents = NULL THEN 0 ELSE r.tip_cents[1])

\* one payer, or two payers, funding the whole total
PaymentLists(total) ==
    { <<[participant_id |-> "p1", amount |-> total]>>,
      <<[participant_id |-> "p3", amount |-> total]>>,
      <<[participant_id |-> "p1", amount |-> total - 100],
        [participant_id |-> "p2", amount |-> 100]>> }

\* every receipt paid in full by p1, and the split in thirds with each way of
\* paying
Expenses ==
    {[receipt |-> r,
      payments |-> <<[participant_id |-> "p1", amount |-> expenseTotal(r)]>>] :
        r \in TripReceipts}
    \cup {[receipt |-> SplitInThirds, payments |-> ps] :
             ps \in PaymentLists(expenseTotal(SplitInThirds))}

\* every participant sends once and receives once
DirectPayments ==
    {[from |-> ft[1], to |-> ft[2], amount |-> 500] :
        ft \in {<<"p1", "p2">>, <<"p2", "p3">>, <<"p3", "p1">>}}

RECURSIVE SeqsUpTo(_, _)
SeqsUpTo(S, n) ==
    IF n = 0 THEN {<<>>}
    ELSE LET shorter == SeqsUpTo(S, n - 1)
         IN  shorter \cup {Append(s, x) : s \in {t \in shorter : Len(t) = n - 1}, x \in S}

Trips ==
    [expenses : SeqsUpTo(Expenses, MaxExpenses),
     direct_payments : SeqsUpTo(DirectPayments, MaxDirectPayments)]

(***************************************************************************)
(* The breakdown of one receipt                                            *)
(***************************************************************************)
InitBreakdown ==
    /\ pc = "ready"
    /\ receipt \in Receipts
    /\ result = <<>>
    /\ balances = <<>>
    /\ creditors = <<>>
    /\ debtors = <<>>
    /\ transactions = <<>>
    /\ trip = <<>>
    /\ netBalances = <<>>
    /\ expensesDone = 0
    /\ paymentsDone = 0
    /\ NoEditing

Calculate ==
    /\ pc = "ready"
    /\ result' = calculatePerPersonBreakdown(receipt)
    /\ pc' = "done"
    /\ UNCHANGED <<receipt, settleVars, aggregateVars, payerVars, assignVars>>

NextBreakdown == Calculate

SpecBreakdown == InitBreakdown /\ [][NextBreakdown]_vars

\* the breakdown of the receipts with two tax lines and a tip, where both
\* proration branches are taken
ProratedReceipts ==
    [line_items : LineItemLists,
     tax_lines : {<<[amount_cents |-> 50], [amount_cents |-> 30]>>},
     tip_cents : {<<400>>}]

InitProrated ==
    /\ pc = "ready"
    /\ receipt \in ProratedReceipts
    /\ result = <<>>
    /\ balances = <<>>
    /\ creditors = <<>>
    /\ debtors = <<>>
    /\ transactions = <<>>
    /\ trip = <<>>
    /\ netBalances = <<>>
    /\ expensesDone = 0
    /\ paymentsDone = 0
    /\ NoEditing

SpecProrated == InitProrated /\ [][NextBreakdown]_vars

\* the breakdown of receipts whose shares are any integers: the shares column
\* is INTEGER without a CHECK, and ReceiptData.shares is a number
SignedShareValues == {-1, 1, 2}

SignedAssignments == [participant_id : Participants, shares : SignedShareValues]

SignedAssignmentLists ==
    {<<a>> : a \in SignedAssignments}
    \cup {ab \in SignedAssignments \X SignedAssignments :
             ab[1].participant_id /= ab[2].participant_id}

SignedReceipts ==
    [line_items :
        {<<[unit_price_cents |-> price, quantity |-> 1, assignments |-> as]>> :
            price \in {100, 3000}, as \in SignedAssignmentLists},
     tax_lines : {<<>>, <<[amount_cents |-> 300]>>},
     tip_cents : {NULL}]

InitSigned ==
    /\ pc = "ready"
    /\ receipt \in SignedReceipts
    /\ result = <<>>
    /\ balances = <<>>
    /\ creditors = <<>>
    /\ debtors = <<>>
    /\ transactions = <<>>
    /\ trip = <<>>
    /\ netBalances = <<>>
    /\ expensesDone = 0
    /\ paymentsDone = 0
    /\ NoEditing

SpecSigned == InitSigned /\ [][NextBreakdown]_vars

(***************************************************************************)
(* The receipt page: the receipt as fetched from the database, with the    *)
(* category of each line item and the category a tax line applies to       *)
(* (amounts in hundredths, as DECIMAL(10, 2) stores them), and the         *)
(* breakdown the page shows for it.                                        *)
(***************************************************************************)
Categories == {"food", "alcohol"}

StoredAssignmentLists ==
    {<<[participant_id |-> "p1", shares |-> 1]>>,
     <<[participant_id |-> "p2", shares |-> 1]>>,
     <<[participant_id |-> "p1", shares |-> 1], [participant_id |-> "p2", shares |-> 1]>>}

StoredLineItems ==
    [amount : {1000, 2000}, category : Categories, assignments : StoredAssignmentLists]

\* applies_to_category: NULL applies to all items
StoredTaxLines ==
    [amount : {300}, applies_to_category : {NULL} \cup {<<c>> : c \in Categories}]

StoredTaxLineLists ==
    {<<>>} \cup {<<t>> : t \in StoredTaxLines}
    \cup {<<[amount |-> 300, applies_to_category |-> <<"alcohol">>],
             [amount |-> 100, applies_to_category |-> s]>> :
               s \in {NULL, <<"food">>}}

StoredReceipts ==
    [line_items : StoredLineItems \X StoredLineItems,
     tax_lines : StoredTaxLineLists,
     tip_amount : TipValues]

\* fetchReceipt: database columns to the page's Receipt
transformed(data) ==
    [tip_cents |-> IF data.tip_amount = NULL \/ data.tip_amount[1] = 0
                   THEN NULL ELSE data.tip_amount,
     line_items |->
        [i \in 1..Len(data.line_items) |->
            [unit_price_cents |-> data.line_items[i].amount,
             quantity |-> 1,
             category |-> data.line_items[i].category,
             assignments |-> data.line_items[i].assignments]],
     tax_lines |->
        [k \in 1..Len(data.tax_lines) |-> [amount_cents |-> data.tax_lines[k].amount]]]

\* perPersonBreakdown: the page's Receipt to the ReceiptData of calculations.ts
toReceiptData(r) ==
    [line_items |->
        [i \in 1..Len(r.line_items) |->
            [unit_price_cents |-> r.line_items[i].unit_price_cents,
             quantity |-> r.line_items[i].quantity,
             assignments |->
                [k \in 1..Len(r.line_items[i].assignments) |->
                    [participant_id |-> r.line_items[i].assignments[k].participant_id,
                     shares |-> r.line_items[i].assignments[k].shares]]]],
     tax_lines |-> [k \in 1..Len(r.tax_lines) |-> [amount_cents |-> r.tax_lines[k].amount_cents]],
     tip_cents |-> r.tip_cents]

\* receipt holds the fetched row
InitPage ==
    /\ pc = "fetched"
    /\ receipt \in StoredReceipts
    /\ result = <<>>
    /\ balances = <<>>
    /\ creditors = <<>>
    /\ debtors = <<>>
    /\ transactions = <<>>
    /\ trip = <<>>
    /\ netBalances = <<>>
    /\ expensesDone = 0
    /\ paymentsDone = 0
    /\ NoEditing

ShowBreakdown ==
    /\ pc = "fetched"
    /\ result' = calculatePerPersonBreakdown(toReceiptData(transformed(receipt)))
    /\ pc' = "shown"
    /\ UNCHANGED <<receipt, settleVars, aggregateVars, payerVars, assignVars>>

NextPage == ShowBreakdown

SpecPage == InitPage /\ [][NextPage]_vars

(***************************************************************************)
(* Settlement optimizer: greedy largest-magnitude matching.                *)
(* (backend/app/services/settlement.py is not among the sources; the       *)
(* optimizer follows section 4.3 of the specification.)                    *)
(***************************************************************************)
Epsilon == 1

People == {"A", "B", "C", "D"}
PersonOrder == <<"A", "B", "C", "D">>
Rank(p) == CHOOSE k \in 1..Len(PersonOrder) : PersonOrder[k] = p

Min(a, b) == IF a < b THEN a ELSE b

isCreditor(b) == b > Epsilon

\* faulty variant: the tolerance with the wrong sign
isDebtorSignSlip(b) == b < Epsilon

isDebtor(b) == b < -Epsilon

\* the participants of one side, in id order
RECURSIVE partition(_, _, _)
partition(bal, k, creditorSide) ==
    IF k > Len(PersonOrder) THEN <<>>
    ELSE LET p == PersonOrder[k]
             mine == IF creditorSide THEN isCreditor(bal[p]) ELSE isDebtor(bal[p])
         IN  (IF mine THEN <<[id |-> p, balance |-> bal[p]]>> ELSE <<>>)
             \o partition(bal, k + 1, creditorSide)

\* faulty variant: equal balances in descending id order
beforeHigherIdFirst(x, y, creditorSide) ==
    \/ IF creditorSide THEN x.balance > y.balance ELSE x.balance < y.balance
    \/ x.balance = y.balance /\ Rank(x.id) > Rank(y.id)

\* creditors: larger balance first; debtors: more negative first; then by id
before(x, y, creditorSide) ==
    \/ IF creditorSide THEN x.balance > y.balance ELSE x.balance < y.balance
    \/ x.balance = y.balance /\ Rank(x.id) < Rank(y.id)

RECURSIVE insertByBalance(_, _, _)
insertByBalance(sorted, e, creditorSide) ==
    IF sorted = <<>> THEN <<e>>
    ELSE IF before(e, Head(sorted), creditorSide) THEN <<e>> \o sorted
    ELSE <<Head(sorted)>> \o insertByBalance(Tail(sorted), e, creditorSide)

RECURSIVE sortByBalance(_, _, _)
sortByBalance(sorted, rest, creditorSide) ==
    IF rest = <<>> THEN sorted
    ELSE sortByBalance(insertByBalance(sorted, Head(rest), creditorSide),
                       Tail(rest), creditorSide)

\* faulty variant: never removes a settled participant
isSettledNever(b) == FALSE

isSettled(b) == Abs(b) <= Epsilon

dropSettled(list) == SelectSeq(list, LAMBDA e : ~isSettled(e.balance))

\* faulty variant: takes the larger of the two magnitudes
settleAmountForced(creditorBalance, debtorBalance) ==
    IF creditorBalance > -debtorBalance THEN creditorBalance ELSE -debtorBalance

settleAmount(creditorBalance, debtorBalance) == Min(creditorBalance, -debtorBalance)

InitSettle ==
    /\ pc = "ready"
    /\ balances \in [People -> BalanceValues]
    /\ creditors = <<>>
    /\ debtors = <<>>
    /\ transactions = <<>>
    /\ receipt = <<>>
    /\ result = <<>>
    /\ trip = <<>>
    /\ netBalances = <<>>
    /\ expensesDone = 0
    /\ paymentsDone = 0
    /\ NoEditing

\* steps 1 and 2: partition and sort
Partition ==
    /\ pc = "ready"
    /\ creditors' = sortByBalance(<<>>, partition(balances, 1, TRUE), TRUE)
    /\ debtors' = sortByBalance(<<>>, partition(balances, 1, FALSE), FALSE)
    /\ pc' = "matching"
    /\ UNCHANGED <<balances, transactions, breakdownVars, aggregateVars, payerVars, assignVars>>

\* steps 3 and 4: match the two largest, reduce both, drop whoever is settled
Match ==
    /\ pc = "matching"
    /\ creditors /= <<>>
    /\ debtors /= <<>>
    /\ LET c == Head(creditors)
           d == Head(debtors)
           amount == settleAmount(c.balance, d.balance)
       IN  /\ transactions' =
                 Append(transactions, [from |-> d.id, to |-> c.id, amount |-> amount])
           /\ creditors' =
                 sortByBalance(<<>>,
                     dropSettled(<<[c EXCEPT !.balance = @ - amount]>> \o Tail(creditors)),
                     TRUE)
           /\ debtors' =
                 sortByBalance(<<>>,
                     dropSettled(<<[d EXCEPT !.balance = @ + amount]>> \o Tail(debtors)),
                     FALSE)
    /\ UNCHANGED <<pc, balances, breakdownVars, aggregateVars, payerVars, assignVars>>

\* step 5: no creditor or no debtor remains
Finish ==
    /\ pc = "matching"
    /\ creditors = <<>> \/ debtors = <<>>
    /\ pc' = "done"
    /\ UNCHANGED <<settleVars, breakdownVars, aggregateVars, payerVars, assignVars>>

NextSettle == Partition \/ Match \/ Finish

SpecSettle == InitSettle /\ [][NextSettle]_vars

\* the optimizer runs to completion once invoked
FairSpecSettle == SpecSettle /\ WF_vars(NextSettle)

(***************************************************************************)
(* Balance aggregator: one signed net balance per participant.             *)
(* (backend/app/services/settlement.py is not among the sources; the       *)
(* aggregator follows section 4.2 of the specification, and takes each     *)
(* expense's per-participant total from calculatePerPersonBreakdown.)      *)
(***************************************************************************)
\* every payment increases its payer's balance by the amount paid
RECURSIVE applyPayments(_, _)
applyPayments(bal, payments) ==
    IF payments = <<>> THEN bal
    ELSE applyPayments(
            [bal EXCEPT ![Head(payments).participant_id] = RAdd(@, Num(Head(payments).amount))],
            Tail(payments))

\* faulty variant: decreases the balance by the items only, without tax and tip
RECURSIVE applyBreakdownItemsOnly(_, _)
applyBreakdownItemsOnly(bal, breakdown) ==
    IF breakdown = <<>> THEN bal
    ELSE applyBreakdownItemsOnly(
            [bal EXCEPT ![Head(breakdown).participantId] = RSub(@, Head(breakdown).itemsTotal)],
            Tail(breakdown))

\* every breakdown entry decreases its participant's balance by the total
RECURSIVE applyBreakdown(_, _)
applyBreakdown(bal, breakdown) ==
    IF breakdown = <<>> THEN bal
    ELSE applyBreakdown(
            [bal EXCEPT ![Head(breakdown).participantId] = RSub(@, Head(breakdown).total)],
            Tail(breakdown))

applyExpense(bal, expense) ==
    applyBreakdown(applyPayments(bal, expense.payments),
                   calculatePerPersonBreakdown(expense.receipt))

\* faulty variant: lowers the sender's balance and raises the receiver's
applyDirectPaymentReversed(bal, payment) ==
    [bal EXCEPT ![payment.from] = RSub(@, Num(payment.amount)),
                ![payment.to] = RAdd(@, Num(payment.amount))]

\* a direct payment raises the sender's balance and lowers the receiver's
applyDirectPayment(bal, payment) ==
    [bal EXCEPT ![payment.from] = RAdd(@, Num(payment.amount)),
                ![payment.to] = RSub(@, Num(payment.amount))]

InitAggregate ==
    /\ pc = "ready"
    /\ trip \in Trips
    /\ netBalances = [p \in TripParticipants |-> Num(0)]
    /\ expensesDone = 0
    /\ paymentsDone = 0
    /\ NoEditing
    /\ receipt = <<>>
    /\ result = <<>>
    /\ balances = <<>>
    /\ creditors = <<>>
    /\ debtors = <<>>
    /\ transactions = <<>>

ApplyExpense ==
    /\ pc = "ready"
    /\ expensesDone < Len(trip.expenses)
    /\ netBalances' = applyExpense(netBalances, trip.expenses[expensesDone + 1])
    /\ expensesDone' = expensesDone + 1
    /\ UNCHANGED <<pc, trip, paymentsDone, breakdownVars, settleVars, payerVars, assignVars>>

ApplyDirectPayment ==
    /\ pc = "ready"
    /\ expensesDone = Len(trip.expenses)
    /\ paymentsDone < Len(trip.direct_payments)
    /\ netBalances' = applyDirectPayment(netBalances, trip.direct_payments[paymentsDone + 1])
    /\ paymentsDone' = paymentsDone + 1
    /\ UNCHANGED <<pc, trip, expensesDone, breakdownVars, settleVars, payerVars, assignVars>>

ReturnBalances ==
    /\ pc = "ready"
    /\ expensesDone = Len(trip.expenses)
    /\ paymentsDone = Len(trip.direct_payments)
    /\ pc' = "done"
    /\ UNCHANGED <<aggregateVars, breakdownVars, settleVars, payerVars, assignVars>>

NextAggregate == ApplyExpense \/ ApplyDirectPayment \/ ReturnBalances

SpecAggregate == InitAggregate /\ [][NextAggregate]_vars

(***************************************************************************)
(* The payer editor of the receipt page: startEditingPayers, the picker's  *)
(* onChange, Cancel and handlePayersUpdate, against the receipt_payments   *)
(* table.  Amounts are cents in the editor and hundredths in the table.    *)
(***************************************************************************)
PayerAmounts == {0, 50, 51, 100}

\* the lists the picker can hand to onChange: each participant at most once
EditLists ==
    {<<>>}
    \cup {<<[participantId |-> p, amount |-> a]>> : p \in Participants, a \in PayerAmounts}
    \cup {<<[participantId |-> "p1", amount |-> a], [participantId |-> "p2", amount |-> b]>> :
             a \in PayerAmounts, b \in PayerAmounts}
    \cup {<<[participantId |-> "p2", amount |-> a], [participantId |-> "p1", amount |-> b]>> :
             a \in PayerAmounts, b \in PayerAmounts}

TotalValues == {NULL, <<100>>, <<101>>}

SelectPayer == <<"Please select at least one payer">>
MustEqualTotal == <<"Payment amounts must equal the total">>
FailedToUpdatePayers == <<"Failed to update payers. Please try again.">>

\* receipt.total_cents || 0
effectiveTotal == IF totalCents = NULL THEN 0 ELSE totalCents[1]

\* faulty variant: looks at the first payer's amount only
payersSumFirst(payments) == IF payments = <<>> THEN 0 ELSE payments[1].amount

payersSum(payments) == Sum([k \in 1..Len(payments) |-> payments[k].amount])

paymentsToInsert(payments) ==
    [k \in 1..Len(payments) |->
        [participant_id |-> payments[k].participantId, amount |-> payments[k].amount]]

\* CHECK (amount > 0) and UNIQUE (receipt_id, participant_id)
insertAccepted(rows, table) ==
    /\ \A k \in 1..Len(rows) : rows[k].amount > 0
    /\ \A j, k \in 1..Len(table \o rows) :
          j /= k => (table \o rows)[j].participant_id /= (table \o rows)[k].participant_id

InitPayers ==
    /\ pc = "page"
    /\ totalCents \in TotalValues
    /\ storedPayments \in
          {<<>>} \cup (IF totalCents = NULL THEN {}
                      ELSE {<<[participant_id |-> "p1", amount |-> totalCents[1]]>>})
    /\ shownPayments = storedPayments
    /\ editPayments = <<>>
    /\ editingPayers = FALSE
    /\ payerError = NULL
    /\ error = NULL
    /\ requests = <<>>
    /\ receipt = <<>>
    /\ result = <<>>
    /\ balances = <<>>
    /\ creditors = <<>>
    /\ debtors = <<>>
    /\ transactions = <<>>
    /\ trip = <<>>
    /\ netBalances = <<>>
    /\ expensesDone = 0
    /\ paymentsDone = 0
    /\ NoAssigning

StartEditingPayers ==
    /\ ~editingPayers
    /\ editPayments' =
          [k \in 1..Len(shownPayments) |->
              [participantId |-> shownPayments[k].participant_id,
               amount |-> shownPayments[k].amount]]
    /\ editingPayers' = TRUE
    /\ UNCHANGED <<pc, storedPayments, shownPayments, totalCents, payerError, error,
                   requests, breakdownVars, settleVars, aggregateVars, assignVars>>

\* onChange={setEditPayments}
ChangePayers ==
    /\ editingPayers
    /\ editPayments' \in EditLists
    /\ UNCHANGED <<pc, storedPayments, shownPayments, totalCents, editingPayers,
                   payerError, error, requests, breakdownVars, settleVars, aggregateVars, assignVars>>

CancelEditing ==
    /\ editingPayers
    /\ editingPayers' = FALSE
    /\ editPayments' = <<>>
    /\ payerError' = NULL
    /\ UNCHANGED <<pc, storedPayments, shownPayments, totalCents, error, requests,
                   breakdownVars, settleVars, aggregateVars, assignVars>>

\* requests holds the writes of the last call.  The delete's result is not
\* looked at; the insert is refused by a constraint, or fails, or succeeds.
HandlePayersUpdate ==
    /\ editingPayers
    /\ IF Len(editPayments) = 0
       THEN /\ payerError' = SelectPayer
            /\ requests' = <<>>
            /\ UNCHANGED <<storedPayments, shownPayments, editPayments, editingPayers, error>>
       ELSE IF Abs(payersSum(editPayments) - effectiveTotal) > 1
       THEN /\ payerError' = MustEqualTotal
            /\ requests' = <<>>
            /\ UNCHANGED <<storedPayments, shownPayments, editPayments, editingPayers, error>>
       ELSE \E deleted \in BOOLEAN, inserted \in BOOLEAN :
                LET table == IF deleted THEN <<>> ELSE storedPayments
                    rows == paymentsToInsert(editPayments)
                IN  /\ payerError' = NULL
                    /\ requests' = <<"delete", "insert">>
                    /\ IF inserted /\ insertAccepted(rows, table)
                       THEN /\ storedPayments' = table \o rows
                            /\ shownPayments' = storedPayments'
                            /\ error' = NULL
                            /\ editingPayers' = FALSE
                            /\ editPayments' = <<>>
                       ELSE /\ storedPayments' = table
                            /\ error' = FailedToUpdatePayers
                            /\ UNCHANGED <<shownPayments, editPayments, editingPayers>>
    /\ UNCHANGED <<pc, totalCents, breakdownVars, settleVars, aggregateVars, assignVars>>

NextPayers == StartEditingPayers \/ ChangePayers \/ CancelEditing \/ HandlePayersUpdate

SpecPayers == InitPayers /\ [][NextPayers]_vars

(***************************************************************************)
(* MultiPayerPicker: payments and totalCents are its props, onChange sets  *)
(* the page's editPayments.                                                *)
(***************************************************************************)
TypedAmounts == {0, 50}

paidTotal(payments) == Sum([k \in 1..Len(payments) |-> payments[k].amount])
remaining(payments, total) == total - paidTotal(payments)

addPayer(payments, total, participant) ==
    Append(payments,
           [participantId |-> participant,
            amount |-> IF remaining(payments, total) > 0
                       THEN remaining(payments, total) ELSE 0])

removePayer(payments, index) ==
    [k \in 1..(Len(payments) - 1) |-> IF k < index THEN payments[k] ELSE payments[k + 1]]

updatePayerAmount(payments, index, amountCents) ==
    [payments EXCEPT ![index].amount = amountCents]

\* faulty variant: every payer gets the rounded-down part, the remainder is lost
splitEvenlyFloor(payments, total) ==
    [k \in 1..Len(payments) |-> [payments[k] EXCEPT !.amount = total \div Len(payments)]]

splitEvenly(payments, total) ==
    IF Len(payments) = 0 THEN payments
    ELSE LET perPerson == total \div Len(payments)
             remainder == total - perPerson * Len(payments)
         IN  [k \in 1..Len(payments) |->
                 [payments[k] EXCEPT !.amount = perPerson + (IF k = 1 THEN remainder ELSE 0)]]

InitPicker ==
    /\ pc = "picker"
    /\ totalCents \in TotalValues
    /\ editPayments = <<>>
    /\ editingPayers = TRUE
    /\ storedPayments = <<>>
    /\ shownPayments = <<>>
    /\ payerError = NULL
    /\ error = NULL
    /\ requests = <<>>
    /\ receipt = <<>>
    /\ result = <<>>
    /\ balances = <<>>
    /\ creditors = <<>>
    /\ debtors = <<>>
    /\ transactions = <<>>
    /\ trip = <<>>
    /\ netBalances = <<>>
    /\ expensesDone = 0
    /\ paymentsDone = 0
    /\ NoAssigning

pickerUnchanged ==
    UNCHANGED <<pc, storedPayments, shownPayments, totalCents, editingPayers, payerError,
                error, requests, breakdownVars, settleVars, aggregateVars, assignVars>>

\* the search leaves out the participants already selected
AddPayer ==
    /\ \E p \in TripParticipants :
          /\ \A k \in 1..Len(editPayments) : editPayments[k].participantId /= p
          /\ editPayments' = addPayer(editPayments, effectiveTotal, p)
    /\ pickerUnchanged

RemovePayer ==
    /\ \E index \in 1..Len(editPayments) :
          editPayments' = removePayer(editPayments, index)
    /\ pickerUnchanged

UpdatePayerAmount ==
    /\ \E index \in 1..Len(editPayments), amountCents \in TypedAmounts :
          editPayments' = updatePayerAmount(editPayments, index, amountCents)
    /\ pickerUnchanged

\* the button is shown for two payers or more
SplitEvenly ==
    /\ Len(editPayments) > 1
    /\ editPayments' = splitEvenly(editPayments, effectiveTotal)
    /\ pickerUnchanged

NextPicker == AddPayer \/ RemovePayer \/ UpdatePayerAmount \/ SplitEvenly

SpecPicker == InitPicker /\ [][NextPicker]_vars

(***************************************************************************)
(* Assigning a line item: SplitEditor or AssignmentChips call the          *)
(* handlers of LineItemCard, which hands the new list to the page's        *)
(* handleAssignmentChange.  That handler is asynchronous: it deletes the   *)
(* item's rows, inserts the new ones and fetches the receipt again, and    *)
(* nothing stops a second call from starting before the first returned.    *)
(* A call is modelled by one step per request it awaits; the requests      *)
(* reach the table, which refuses an insert that breaks its constraint.    *)
(* A behaviour is followed for MaxCalls calls; of a call that returned     *)
(* only its place among the calls is kept.                                 *)
(***************************************************************************)
MaxRatio == 2      \* edits that would hand out a larger shares value are left out
MaxCalls == 2      \* handleAssignmentChange calls of a behaviour

LineItemAmounts == {300}
TypedRatios == {NULL, <<-1>>, <<0>>, <<2>>}     \* parseInt of the ratio field: NaN or an integer
TypedCents == {NULL, <<0>>, <<100>>, <<400>>}   \* the amount field in cents: NaN or a number
PickedIds ==
    {<<p>> : p \in Participants}
        \cup {<<p, q>> : p, q \in Participants}
SaveAssignmentsFailed == <<"Failed to save assignments. Please try again.">>

\* Math.round of a / b for b > 0
roundDiv(a, b) == (2 * a + b) \div (2 * b)

RECURSIVE gcdLoop(_, _)
gcdLoop(a, b) == IF b > 0 THEN gcdLoop(b, a % b) ELSE a

gcd(a, b) == IF gcdLoop(Abs(a), Abs(b)) = 0 THEN 1 ELSE gcdLoop(Abs(a), Abs(b))

RECURSIVE reduceGcd(_, _)
reduceGcd(acc, arr) ==
    IF arr = <<>> THEN acc ELSE reduceGcd(gcd(acc, Head(arr)), Tail(arr))

gcdArray(arr) == IF Len(arr) = 0 THEN 1 ELSE reduceGcd(arr[1], arr)

totalSharesOf(list) == Sum([k \in 1..Len(list) |-> list[k].shares])

getAmountCents(list, amount, shares) ==
    IF totalSharesOf(list) = 0 THEN 0
    ELSE roundDiv(amount * shares, totalSharesOf(list))

\* faulty variant: the typed ratio is taken as it is
ratioOfUnchecked(value) == IF value = NULL THEN 1 ELSE value[1]

\* parseInt(value) || 1, at least 1
ratioOf(value) ==
    IF value = NULL \/ value = <<0>> THEN 1
    ELSE IF value[1] < 1 THEN 1 ELSE value[1]

targetAmounts(list, amount, participantId, newAmountCents) ==
    [k \in 1..Len(list) |->
        IF list[k].participant_id = participantId THEN newAmountCents
        ELSE getAmountCents(list, amount, list[k].shares)]

ratiosOf(list, amount, participantId, newAmountCents) ==
    LET targets == targetAmounts(list, amount, participantId, newAmountCents)
        amountGcd == gcdArray(SelectSeq(targets, LAMBDA a : a > 0))
    IN  [k \in 1..Len(list) |->
            IF roundDiv(targets[k], amountGcd) < 1 THEN 1
            ELSE roundDiv(targets[k], amountGcd)]

handleRemoveAssignment(list, participantId) ==
    SelectSeq(list, LAMBDA a : a.participant_id /= participantId)

handleSharesChange(list, participantId, shares) ==
    [k \in 1..Len(list) |->
        IF list[k].participant_id = participantId
        THEN [list[k] EXCEPT !.shares = shares] ELSE list[k]]

\* empty when no participant is new: onAssignmentChange is not called then
addedAssignments(list, participantIds) ==
    LET newParticipantIds ==
            SelectSeq(participantIds,
                      LAMBDA id : \A k \in 1..Len(list) : list[k].participant_id /= id)
    IN  [k \in 1..Len(newParticipantIds) |->
            [participant_id |-> newParticipantIds[k], shares |-> 1]]

\* faulty variant: the table has no unique constraint
assignmentsAcceptedAlways(rows, table) == TRUE

\* UNIQUE (line_item_id, participant_id)
assignmentsAccepted(rows, table) ==
    LET all == table \o rows
    IN  \A j, k \in 1..Len(all) : all[j].participant_id = all[k].participant_id => j = k

Rendered == {assignments[k].participant_id : k \in 1..Len(assignments)}
sharesOf(participantId) ==
    (CHOOSE k \in 1..Len(assignments) : assignments[k].participant_id = participantId)

\* onAssignmentChange for each list in turn: each call runs up to its first await
started(lists) ==
    calls \o [k \in 1..Len(lists) |-> [newAssignments |-> lists[k], at |-> "delete"]]

InBounds(lists) ==
    /\ Len(calls) + Len(lists) <= MaxCalls
    /\ \A k \in 1..Len(lists) : \A j \in 1..Len(lists[k]) : lists[k][j].shares <= MaxRatio

\* the card shows the item's assignments in one of the two editors
InitAssign ==
    /\ pc \in {"SplitEditor", "AssignmentChips"}
    /\ itemAmountCents \in LineItemAmounts
    /\ storedAssignments \in
          {<<>>, <<[participant_id |-> "p1", shares |-> 2],
                   [participant_id |-> "p2", shares |-> 1]>>}
    /\ assignments = storedAssignments
    /\ calls = <<>>
    /\ newRatios = <<>>
    /\ editingId = NULL
    /\ editingShares = 1
    /\ storedPayments = <<>>
    /\ shownPayments = <<>>
    /\ totalCents = NULL
    /\ editPayments = <<>>
    /\ editingPayers = FALSE
    /\ payerError = NULL
    /\ error = NULL
    /\ requests = <<>>
    /\ receipt = <<>>
    /\ result = <<>>
    /\ balances = <<>>
    /\ creditors = <<>>
    /\ debtors = <<>>
    /\ transactions = <<>>
    /\ trip = <<>>
    /\ netBalances = <<>>
    /\ expensesDone = 0
    /\ paymentsDone = 0

otherUnchanged ==
    UNCHANGED <<pc, itemAmountCents, storedPayments, shownPayments, totalCents, editPayments,
                editingPayers, payerError, requests, breakdownVars, settleVars,
                aggregateVars>>

\* SplitEditor: the ratio field of a row
HandleRatioChange ==
    /\ pc = "SplitEditor"
    /\ \E participantId \in Rendered, value \in TypedRatios :
          LET newShares == ratioOf(value)
              lists == <<handleSharesChange(assignments, participantId, newShares)>>
          IN  /\ InBounds(lists)
              /\ calls' = started(lists)
    /\ newRatios' = <<>>
    /\ UNCHANGED <<storedAssignments, assignments, error, editingId, editingShares>>
    /\ otherUnchanged

\* SplitEditor: an amount was typed into a row and the field left
HandleAmountBlur ==
    /\ pc = "SplitEditor"
    /\ \E participantId \in Rendered, typed \in TypedCents :
          LET newAmountCents == IF typed = NULL THEN 0 ELSE typed[1]
              ratios == ratiosOf(assignments, itemAmountCents, participantId, newAmountCents)
              changed == SelectSeq([k \in 1..Len(assignments) |-> k],
                                   LAMBDA k : assignments[k].shares /= ratios[k])
              lists == [j \in 1..Len(changed) |->
                          handleSharesChange(assignments,
                                             assignments[changed[j]].participant_id,
                                             ratios[changed[j]])]
          IN  IF newAmountCents <= 0
              THEN /\ newRatios' = <<>>
                   /\ calls' = calls
              ELSE /\ InBounds(lists)
                   /\ \A k \in 1..Len(ratios) : ratios[k] <= MaxRatio
                   /\ newRatios' = [k \in 1..Len(assignments) |->
                                       [participant_id |-> assignments[k].participant_id,
                                        shares |-> ratios[k],
                                        was |-> assignments[k].shares]]
                   /\ calls' = started(lists)
    /\ UNCHANGED <<storedAssignments, assignments, error, editingId, editingShares>>
    /\ otherUnchanged

\* the remove button of a row or of a chip
HandleRemoveAssignment ==
    /\ \E participantId \in Rendered :
          LET lists == <<handleRemoveAssignment(assignments, participantId)>>
          IN  /\ InBounds(lists)
              /\ calls' = started(lists)
    /\ newRatios' = <<>>
    /\ UNCHANGED <<storedAssignments, assignments, error, editingId, editingShares>>
    /\ otherUnchanged

\* the participant picker reports the selected participants
HandleAddAssignments ==
    /\ \E participantIds \in PickedIds :
          LET added == addedAssignments(assignments, participantIds)
              lists == IF Len(added) > 0 THEN <<assignments \o added>> ELSE <<>>
          IN  /\ InBounds(lists)
              /\ calls' = started(lists)
    /\ newRatios' = <<>>
    /\ UNCHANGED <<storedAssignments, assignments, error, editingId, editingShares>>
    /\ otherUnchanged

\* AssignmentChips: a chip opens its popover
HandleChipClick ==
    /\ pc = "AssignmentChips"
    /\ \E participantId \in Rendered :
          /\ editingId' = <<participantId>>
          /\ editingShares' = assignments[sharesOf(participantId)].shares
    /\ UNCHANGED <<storedAssignments, assignments, calls, newRatios, error>>
    /\ otherUnchanged

\* AssignmentChips: the -, + and number field of the popover
SetEditingShares ==
    /\ editingId /= NULL
    /\ editingId[1] \in Rendered
    /\ \/ editingShares' = IF editingShares - 1 < 1 THEN 1 ELSE editingShares - 1
       \/ editingShares' = editingShares + 1
       \/ \E value \in TypedRatios : editingShares' = ratioOf(value)
    /\ editingShares' <= MaxRatio
    /\ UNCHANGED <<storedAssignments, assignments, calls, newRatios, error,
                   editingId>>
    /\ otherUnchanged

\* AssignmentChips: the Update button of the popover
HandleSharesUpdate ==
    /\ editingId /= NULL
    /\ editingId[1] \in Rendered
    /\ LET lists == <<handleSharesChange(assignments, editingId[1], editingShares)>>
       IN  /\ InBounds(lists)
           /\ calls' = started(lists)
    /\ newRatios' = <<>>
    /\ editingId' = NULL
    /\ editingShares' = 1      \* not read again before the next chip click sets it
    /\ UNCHANGED <<storedAssignments, assignments, error>>
    /\ otherUnchanged

replaceCall(i, position) == [calls EXCEPT ![i].at = position]

\* handleAssignmentChange: the delete request is served
DeleteAssignments ==
    /\ \E i \in 1..Len(calls) :
          /\ calls[i].at = "delete"
          /\ storedAssignments' = <<>>
          /\ calls' = replaceCall(i, IF Len(calls[i].newAssignments) > 0
                                     THEN "insert" ELSE "fetch")
    /\ UNCHANGED <<assignments, newRatios, error, editingId, editingShares>>
    /\ otherUnchanged

\* handleAssignmentChange: the insert request is served, and refused as a whole when
\* a row breaks the table's constraint
InsertAssignments ==
    /\ \E i \in 1..Len(calls) :
          /\ calls[i].at = "insert"
          /\ IF assignmentsAccepted(calls[i].newAssignments, storedAssignments)
             THEN /\ storedAssignments' = storedAssignments \o calls[i].newAssignments
                  /\ error' = error
             ELSE /\ storedAssignments' = storedAssignments
                  /\ error' = SaveAssignmentsFailed
          /\ calls' = replaceCall(i, "fetch")
    /\ UNCHANGED <<assignments, newRatios, editingId, editingShares>>
    /\ otherUnchanged

\* handleAssignmentChange: the receipt is fetched again and the call returns
FetchAssignments ==
    /\ \E i \in 1..Len(calls) :
          /\ calls[i].at = "fetch"
          /\ assignments' = storedAssignments
          /\ error' = NULL
          /\ calls' = [calls EXCEPT ![i] = [newAssignments |-> <<>>, at |-> "returned"]]
    /\ UNCHANGED <<storedAssignments, newRatios, editingId, editingShares>>
    /\ otherUnchanged

NextAssign ==
    \/ HandleRatioChange
    \/ HandleAmountBlur
    \/ HandleRemoveAssignment
    \/ HandleAddAssignments
    \/ HandleChipClick
    \/ SetEditingShares
    \/ HandleSharesUpdate
    \/ DeleteAssignments
    \/ InsertAssignments
    \/ FetchAssignments

SpecAssign == InitAssign /\ [][NextAssign]_vars

(***************************************************************************)
(* Properties of the settlement optimizer                                  *)
(***************************************************************************)
SumOver(f, S) == Sum([k \in 1..Len(PersonOrder) |-> IF PersonOrder[k] \in S THEN f[PersonOrder[k]] ELSE 0])

Received(p) == Sum([k \in 1..Len(transactions) |->
                      IF transactions[k].to = p THEN transactions[k].amount ELSE 0])
Paid(p) == Sum([k \in 1..Len(transactions) |->
                  IF transactions[k].from = p THEN transactions[k].amount ELSE 0])

\* the balance of p once every emitted transaction is executed
AfterSettlement(p) == balances[p] - Received(p) + Paid(p)

Unsettled == {p \in People : Abs(balances[p]) > 1}

\* C1: applied to balances that sum to zero, the emitted transactions leave
\* every participant within one cent of zero.
C1_SettlesToZero ==
    (pc = "done" /\ SumOver(balances, People) = 0) =>
        \A p \in People : Abs(AfterSettlement(p)) <= 1

\* C2: every emitted transaction has a positive amount and two different
\* parties, whether or not the balances sum to zero.
C2_PositiveDistinct ==
    pc \in {"matching", "done"} =>
        \A k \in 1..Len(transactions) :
            /\ transactions[k].amount > 0
            /\ transactions[k].from /= transactions[k].to

C2_Witness ==
    /\ pc = "done"
    /\ SumOver(balances, People) /= 0
    /\ Len(transactions) = 3

\* C3: the greedy loop terminates, and n unsettled participants get at most
\* n - 1 transactions (none when nobody is unsettled).
C3_TerminatesWithinBound ==
    /\ <>(pc = "done")
    /\ [](Len(transactions) <= IF Unsettled = {} THEN 0 ELSE Cardinality(Unsettled) - 1)

C3_Witness ==
    /\ pc = "done"
    /\ Cardinality(Unsettled) = 4
    /\ Len(transactions) = 3

SumOfBalances == SumOver(balances, People)
Owes(p) == IF balances[p] < 0 THEN -balances[p] ELSE 0
IsOwed(p) == IF balances[p] > 0 THEN balances[p] ELSE 0
Remaining(list) == {<<list[k].id, list[k].balance>> : k \in 1..Len(list)}

LargestFirst(p, sign) ==
    \A q \in People :
        \/ sign * AfterSettlement(q) < sign * AfterSettlement(p)
        \/ AfterSettlement(q) = AfterSettlement(p) /\ Rank(p) <= Rank(q)

ScenarioC == [p \in People |-> CASE p = "A" -> 5000 [] p = "B" -> -3000
                                  [] p = "C" -> -2000 [] OTHER -> 0]

\* C20: every transaction goes from the participant with the most negative
\* remaining balance to the one with the largest remaining balance, the lower
\* id first among equals, for the smaller of the two magnitudes; balances
\* A +5000, B -3000, C -2000 give B to A 3000, then C to A 2000.
C20_GreedyPairing ==
    /\ [][Len(transactions') = Len(transactions) + 1 =>
             LET t == transactions'[Len(transactions')]
             IN  /\ Len(transactions') = Len(transactions) + 1
                 /\ LargestFirst(t.to, 1)
                 /\ LargestFirst(t.from, -1)
                 /\ t.amount = Min(AfterSettlement(t.to), -AfterSettlement(t.from))]_vars
    /\ []((pc = "done" /\ balances = ScenarioC) =>
             transactions = <<[from |-> "B", to |-> "A", amount |-> 3000],
                              [from |-> "C", to |-> "A", amount |-> 2000]>>)

C20_Witness ==
    /\ pc = "done"
    /\ balances = ScenarioC
    /\ Len(transactions) = 2
    /\ transactions[2] = [from |-> "C", to |-> "A", amount |-> 2000]

(***************************************************************************)
(* Properties of the breakdown                                             *)
(***************************************************************************)
Done == pc = "done"

Ids(res) == {res[k].participantId : k \in 1..Len(res)}
EntryOf(p) == result[CHOOSE k \in 1..Len(result) : result[k].participantId = p]

SharesOn(item) == Sum([k \in 1..Len(item.assignments) |-> item.assignments[k].shares])
AmountOf(item) == item.unit_price_cents * item.quantity
Unassigned(item) == SharesOn(item) = 0

\* what participant p owes for one item: amount x shares / total shares
OwedOnItem(item, p) ==
    IF Unassigned(item) THEN Num(0)
    ELSE RSum([k \in 1..Len(item.assignments) |->
                 IF item.assignments[k].participant_id = p
                 THEN Rat(AmountOf(item) * item.assignments[k].shares, SharesOn(item))
                 ELSE Num(0)])
OwedOnItems(r, p) == RSum([i \in 1..Len(r.line_items) |-> OwedOnItem(r.line_items[i], p)])

AssignedAmount(r) ==
    Sum([i \in 1..Len(r.line_items) |->
           IF Unassigned(r.line_items[i]) THEN 0 ELSE AmountOf(r.line_items[i])])
TaxOf(r) == Sum([k \in 1..Len(r.tax_lines) |-> r.tax_lines[k].amount_cents])
TipOf(r) == IF r.tip_cents = NULL THEN 0 ELSE r.tip_cents[1]

SumOfItemsTotal == RSum([k \in 1..Len(result) |-> result[k].itemsTotal])
SumOfTaxShare == RSum([k \in 1..Len(result) |-> result[k].taxShare])
SumOfTipShare == RSum([k \in 1..Len(result) |-> result[k].tipShare])
SumOfTotal == RSum([k \in 1..Len(result) |-> result[k].total])

Within(x, y, tolerance) == RLeq(RAbs(RSub(x, y)), Num(tolerance))

Assign(p, n) == [participant_id |-> p, shares |-> n]
Item(price, quantity, as) ==
    [unit_price_cents |-> price, quantity |-> quantity, assignments |-> as]

\* scenario A: one $30.00 item, two shares to one share, no tax, no tip
ScenarioA ==
    [line_items |-> <<Item(3000, 1, <<Assign("p1", 2), Assign("p2", 1)>>)>>,
     tax_lines |-> <<>>, tip_cents |-> NULL]

\* scenario B: a $20.00 item and a $10.00 item, $3.00 of tax
ScenarioB ==
    [line_items |-> <<Item(1000, 2, <<Assign("p1", 1)>>), Item(1000, 1, <<Assign("p2", 1)>>)>>,
     tax_lines |-> <<[amount_cents |-> 300]>>, tip_cents |-> NULL]

\* C5: each participant's itemsTotal is the sum, over the items with positive
\* total shares, of amount x shares / total shares; 3000 split 2:1 gives
\* 2000 and 1000.
C5_ShareOfItem ==
    Done =>
        /\ \A p \in Ids(result) : EntryOf(p).itemsTotal = OwedOnItems(receipt, p)
        /\ receipt = ScenarioA =>
              /\ Ids(result) = {"p1", "p2"}
              /\ EntryOf("p1").itemsTotal = Num(2000)
              /\ EntryOf("p2").itemsTotal = Num(1000)

C5_Witness ==
    /\ Done
    /\ receipt = ScenarioA
    /\ Len(result) = 2
    /\ result[1].itemsTotal = Num(2000)

C7_TaxTipProrated ==
    Done =>
        /\ RLess(Num(0), SumOfItemsTotal) =>
              \A k \in 1..Len(result) :
                 /\ result[k].taxShare =
                       RDiv(RMul(Num(TaxOf(receipt)), result[k].itemsTotal), SumOfItemsTotal)
                 /\ result[k].tipShare =
                       RDiv(RMul(Num(TipOf(receipt)), result[k].itemsTotal), SumOfItemsTotal)
        /\ receipt = ScenarioB =>
              /\ Ids(result) = {"p1", "p2"}
              /\ EntryOf("p1").taxShare = Num(200)
              /\ EntryOf("p2").taxShare = Num(100)

C7_Witness ==
    /\ Done
    /\ receipt = ScenarioB
    /\ Len(result) = 2
    /\ result[1].itemsTotal = Num(2000)
    /\ result[1].taxShare = Num(200)

\* C8 as stated: for every expense the entries' totals add up to the entries'
\* itemsTotal plus all tax plus the tip, within one cent per participant.
C8_TotalsAddUp_Original ==
    Done =>
        Within(SumOfTotal,
               RAdd(SumOfItemsTotal, Num(TaxOf(receipt) + TipOf(receipt))),
               Len(result))

\* C8 (amended): the same, for every expense whose assigned amount (the sum of
\* the entries' itemsTotal) is positive.
C8_TotalsAddUp ==
    (Done /\ RLess(Num(0), SumOfItemsTotal)) =>
        Within(SumOfTotal,
               RAdd(SumOfItemsTotal, Num(TaxOf(receipt) + TipOf(receipt))),
               Len(result))

C8_Witness ==
    /\ Done
    /\ Len(result) = 2
    /\ TaxOf(receipt) = 80
    /\ TipOf(receipt) = 400
    /\ ~IsInteger(result[1].taxShare)
    /\ SumOfTotal = RAdd(SumOfItemsTotal, Num(480))

\* C9: when every item has positive total shares, the entries' itemsTotal add
\* up to the items' unit price x quantity, within one cent per item.
C9_ItemsAddUp ==
    (Done /\ \A i \in 1..Len(receipt.line_items) : ~Unassigned(receipt.line_items[i])) =>
        Within(SumOfItemsTotal,
               Num(Sum([i \in 1..Len(receipt.line_items) |-> AmountOf(receipt.line_items[i])])),
               Len(receipt.line_items))

C9_Witness ==
    /\ Done
    /\ Len(receipt.line_items) = 2
    /\ \A i \in 1..2 : ~Unassigned(receipt.line_items[i])
    /\ AmountOf(receipt.line_items[1]) = 2000
    /\ AmountOf(receipt.line_items[2]) = 100
    /\ Len(result) = 2
    /\ ~IsInteger(result[2].itemsTotal)
    /\ SumOfItemsTotal = Num(2100)

\* C10: every amount of every entry is a whole number of cents.
C10_IntegerCents ==
    Done =>
        \A k \in 1..Len(result) :
            /\ IsInteger(result[k].itemsTotal)
            /\ IsInteger(result[k].taxShare)
            /\ IsInteger(result[k].tipShare)
            /\ IsInteger(result[k].total)

\* the receipt with the shares of every assignment of item i multiplied by factor
ScaledShares(r, i, factor) ==
    [r EXCEPT !.line_items[i].assignments =
        [k \in 1..Len(@) |-> [@[k] EXCEPT !.shares = @ * factor]]]

\* C11: multiplying the shares of all assignments of one line item by the same
\* positive integer (2 or 3) leaves the whole breakdown unchanged.
C11_ScaleInvariant ==
    Done =>
        \A i \in 1..Len(receipt.line_items) : \A factor \in {2, 3} :
            calculatePerPersonBreakdown(ScaledShares(receipt, i, factor)) = result

C11_Witness ==
    /\ Done
    /\ Len(receipt.line_items) = 2
    /\ AmountOf(receipt.line_items[1]) = 100
    /\ Len(receipt.line_items[1].assignments) = 2
    /\ receipt.line_items[1].assignments[1].shares = 1
    /\ receipt.line_items[1].assignments[2].shares = 2
    /\ TaxOf(receipt) = 80
    /\ Len(result) = 2
    /\ ~IsInteger(result[1].itemsTotal)
    /\ calculatePerPersonBreakdown(ScaledShares(receipt, 1, 2)) = result

\* <<i, k>>: the k-th assignment of the i-th line item
Positions(r) ==
    UNION {{<<i, k>> : k \in 1..Len(r.line_items[i].assignments)} :
              i \in 1..Len(r.line_items)}
Precedes(a, b) == a[1] < b[1] \/ (a[1] = b[1] /\ a[2] < b[2])
Mentions(r, p) ==
    {a \in Positions(r) : r.line_items[a[1]].assignments[a[2]].participant_id = p}
\* p appears in the assignments of the line items before q does
MentionedBefore(r, p, q) ==
    \E a \in Mentions(r, p) : \A b \in Mentions(r, q) : Precedes(a, b)
\* the same, over the line items with positive total shares only
CountedMentions(r, p) == {a \in Mentions(r, p) : ~Unassigned(r.line_items[a[1]])}
EncounteredBefore(r, p, q) ==
    \E a \in CountedMentions(r, p) : \A b \in CountedMentions(r, q) : Precedes(a, b)

ItemsTotalOf(p) == IF p \in Ids(result) THEN EntryOf(p).itemsTotal ELSE Num(0)

\* the amount of the line items that have no assignment at all
UnassignedAmount(r) ==
    Sum([i \in 1..Len(r.line_items) |->
           IF r.line_items[i].assignments = <<>> THEN AmountOf(r.line_items[i]) ELSE 0])

\* C18: the cost of a line item without assignments is split equally among the
\* participants: each participant's itemsTotal is what they owe on the items
\* assigned to them plus an equal part of the unassigned items.
C18_UnassignedSplitEqually ==
    Done =>
        \A p \in Participants :
            ItemsTotalOf(p) =
                RAdd(OwedOnItems(receipt, p),
                     Rat(UnassignedAmount(receipt), Cardinality(Participants)))

Shown == pc = "shown"

\* what participant p owes for one fetched line item
OwedOnRow(row, p) ==
    IF SharesOn(row) = 0 THEN Num(0)
    ELSE RSum([k \in 1..Len(row.assignments) |->
                 IF row.assignments[k].participant_id = p
                 THEN Rat(row.amount * row.assignments[k].shares, SharesOn(row))
                 ELSE Num(0)])

\* a tax line covers the items of its category, or all items when unscoped
Covers(tax, row) ==
    tax.applies_to_category = NULL \/ tax.applies_to_category = <<row.category>>

\* p's subtotal in the items the tax line covers, and the subtotal of everybody
SubtotalUnder(data, tax, p) ==
    RSum([i \in 1..Len(data.line_items) |->
            IF Covers(tax, data.line_items[i])
            THEN OwedOnRow(data.line_items[i], p) ELSE Num(0)])
BaseOf(data, tax) ==
    Sum([i \in 1..Len(data.line_items) |->
           IF Covers(tax, data.line_items[i]) /\ SharesOn(data.line_items[i]) > 0
           THEN data.line_items[i].amount ELSE 0])

\* the tax of p with every tax line prorated on its own over the items it covers
TaxByCategory(data, p) ==
    RSum([k \in 1..Len(data.tax_lines) |->
            IF BaseOf(data, data.tax_lines[k]) = 0 THEN Num(0)
            ELSE RDiv(RMul(Num(data.tax_lines[k].amount),
                           SubtotalUnder(data, data.tax_lines[k], p)),
                      Num(BaseOf(data, data.tax_lines[k])))])

\* C15: each tax line is prorated on its own: a line scoped to a category over
\* the participants' subtotals in that category, an unscoped line over the
\* whole assigned amount (for receipts where every tax line covers an item).
C15_TaxByCategory ==
    (Shown /\ \A k \in 1..Len(receipt.tax_lines) : BaseOf(receipt, receipt.tax_lines[k]) > 0) =>
        \A p \in Ids(result) : EntryOf(p).taxShare = TaxByCategory(receipt, p)

\* the entries of participant p, and the line items on which p holds shares
EntriesOf(p) == {k \in 1..Len(result) : result[k].participantId = p}
ItemsOf(r, p) ==
    {i \in 1..Len(r.line_items) :
        \E k \in 1..Len(r.line_items[i].assignments) :
            /\ r.line_items[i].assignments[k].participant_id = p
            /\ r.line_items[i].assignments[k].shares > 0}

\* C21: a participant who holds shares on several line items has exactly one
\* entry; its itemsTotal is the sum of their shares of those items, and tax
\* and tip are each the receipt's whole tax and tip prorated once on that sum.
C21_AccumulatedOnce ==
    Done =>
        \A p \in Participants :
            Cardinality(ItemsOf(receipt, p)) > 1 =>
                /\ Cardinality(EntriesOf(p)) = 1
                /\ EntryOf(p).itemsTotal =
                      RSum([i \in 1..Len(receipt.line_items) |->
                              OwedOnItem(receipt.line_items[i], p)])
                /\ EntryOf(p).taxShare =
                      Rat(TaxOf(receipt) * EntryOf(p).itemsTotal[1],
                          AssignedAmount(receipt) * EntryOf(p).itemsTotal[2])
                /\ EntryOf(p).tipShare =
                      Rat(TipOf(receipt) * EntryOf(p).itemsTotal[1],
                          AssignedAmount(receipt) * EntryOf(p).itemsTotal[2])

\* p1 holds 100 x 1/3 and all of 3000; p2 holds 100 x 2/3
C21_Witness ==
    /\ Done /\ Len(receipt.line_items) = 2
    /\ ItemsOf(receipt, "p1") = {1, 2}
    /\ ItemsOf(receipt, "p2") = {1}
    /\ AmountOf(receipt.line_items[1]) = 100
    /\ AmountOf(receipt.line_items[2]) = 3000
    /\ Cardinality(EntriesOf("p1")) = 1
    /\ EntryOf("p1").itemsTotal = Rat(9100, 3)
    /\ Len(result) = 2

\* C22: every entry's total is itemsTotal + taxShare + tipShare; a receipt
\* without a tip gives every entry tipShare 0, and a receipt without tax lines
\* gives every entry taxShare 0.
C22_TotalIsSum ==
    Shown =>
        \A k \in 1..Len(result) :
            /\ result[k].total =
                  RAdd(result[k].itemsTotal, RAdd(result[k].taxShare, result[k].tipShare))
            /\ receipt.tip_amount = NULL => result[k].tipShare = Num(0)
            /\ receipt.tax_lines = <<>> => result[k].taxShare = Num(0)

C22_Witness ==
    /\ Shown
    /\ receipt.tip_amount = NULL
    /\ receipt.tax_lines = <<>>
    /\ Len(result) = 2
    /\ result[1].itemsTotal = Num(2000)
    /\ result[1].total = Num(2000)

\* C23: a participant who holds no positive shares on any line item has no
\* entry in the breakdown, also when others hold positive shares on the items
\* where the participant is listed with zero shares.
C23_ZeroSharesAbsent ==
    Done =>
        \A p \in Participants : ItemsOf(receipt, p) = {} => p \notin Ids(result)

\* the receipt has an assignment with negative shares
Malformed(r) ==
    \E i \in 1..Len(r.line_items) : \E k \in 1..Len(r.line_items[i].assignments) :
        r.line_items[i].assignments[k].shares < 0

\* C24: the computation of a receipt with a negative shares value does not
\* complete with a breakdown: it is rejected and no entry is returned.
C24_NegativeSharesRejected ==
    Malformed(receipt) => (pc \in {"ready", "rejected"} /\ result = <<>>)

(***************************************************************************)
(* Properties of the balance aggregator                                    *)
(***************************************************************************)
PaymentsOf(e) == Sum([k \in 1..Len(e.payments) |-> e.payments[k].amount])

FullyPaid(e) ==
    PaymentsOf(e) = Sum([i \in 1..Len(e.receipt.line_items) |-> AmountOf(e.receipt.line_items[i])])
                    + TaxOf(e.receipt) + TipOf(e.receipt)

SumOfNetBalances ==
    RSum([k \in 1..3 |-> netBalances[<<"p1", "p2", "p3">>[k]]])

LineItemCount == Sum([k \in 1..Len(trip.expenses) |-> Len(trip.expenses[k].receipt.line_items)])

\* C4: when every expense's payments add up to its total, the net balances
\* add up to zero, within one cent per line item of every expense.
C4_BalancesSumToZero ==
    (pc = "done" /\ \A k \in 1..Len(trip.expenses) : FullyPaid(trip.expenses[k])) =>
        Within(SumOfNetBalances, Num(0), LineItemCount)


\* the sum of the balances of a balance map
TotalOf(bal) == RAdd(bal["p1"], RAdd(bal["p2"], bal["p3"]))

\* the signed effect of a direct payment on the balance of participant p
DirectPaymentEffect(payment, p) ==
    IF p = payment.from THEN payment.amount
    ELSE IF p = payment.to THEN -payment.amount ELSE 0

\* C16: applying a direct payment of x from A to B raises A's balance by x,
\* lowers B's by x, and leaves every other balance and the sum unchanged.
C16_DirectPaymentEffect ==
    [][paymentsDone' = paymentsDone + 1 =>
          /\ \A p \in TripParticipants :
                netBalances'[p] =
                    RAdd(netBalances[p],
                         Num(DirectPaymentEffect(trip.direct_payments[paymentsDone'], p)))
          /\ TotalOf(netBalances') = TotalOf(netBalances)]_vars

C16_Witness ==
    /\ paymentsDone = 1
    /\ trip.expenses = <<>>
    /\ trip.direct_payments[1] = [from |-> "p1", to |-> "p2", amount |-> 500]
    /\ netBalances["p1"] = Num(500)
    /\ netBalances["p2"] = Num(-500)
    /\ netBalances["p3"] = Num(0)


\* what participant p paid towards expense e
PaidBy(e, p) ==
    Sum([k \in 1..Len(e.payments) |->
           IF e.payments[k].participant_id = p THEN e.payments[k].amount ELSE 0])

\* the prorated total of participant p for receipt r: the items owed plus the
\* same proportion of tax and tip
ConsumedBy(r, p) ==
    IF AssignedAmount(r) = 0 THEN Num(0)
    ELSE RAdd(OwedOnItems(r, p),
              RDiv(RMul(Num(TaxOf(r) + TipOf(r)), OwedOnItems(r, p)),
                   Num(AssignedAmount(r))))

\* C19: applying an expense raises every participant's balance by what they
\* paid towards it and lowers it by their prorated total, so that a participant
\* who paid and consumed gets paid minus total.
C19_ExpenseEffect ==
    [][expensesDone' = expensesDone + 1 =>
          \A p \in TripParticipants :
              netBalances'[p] =
                  RSub(RAdd(netBalances[p], Num(PaidBy(trip.expenses[expensesDone'], p))),
                       ConsumedBy(trip.expenses[expensesDone'].receipt, p))]_vars

\* scenario B with 300 of tax, paid by p1: p1 paid 3300 and consumed 2200
C19_Witness ==
    /\ expensesDone = 1
    /\ trip.expenses[1].receipt = ScenarioB
    /\ trip.expenses[1].payments = <<[participant_id |-> "p1", amount |-> 3300]>>
    /\ netBalances["p1"] = Num(1100)
    /\ netBalances["p2"] = Num(-1100)
    /\ netBalances["p3"] = Num(0)

(***************************************************************************)
(* Properties of the payer editor                                          *)
(***************************************************************************)
ReceiptTotal == IF totalCents = NULL THEN 0 ELSE totalCents[1]
EditedSum == Sum([k \in 1..Len(editPayments) |-> editPayments[k].amount])
\* at least one payer, and the amounts add up to the total within one cent
Savable == Len(editPayments) > 0 /\ Abs(EditedSum - ReceiptTotal) <= 1

\* C25: handlePayersUpdate sends writes and changes the stored payments only
\* when the edited payers are savable; otherwise it sets a payer error, sends
\* no delete and no insert, and leaves the stored payments as they were.
C25_SaveValidated ==
    [][/\ storedPayments' /= storedPayments => Savable
       /\ (HandlePayersUpdate /\ Savable) => requests' = <<"delete", "insert">>
       /\ (HandlePayersUpdate /\ ~Savable) =>
             /\ payerError' /= NULL
             /\ requests' = <<>>
             /\ storedPayments' = storedPayments]_vars

\* a save of 50 against a total of 100 was refused
C25_Witness ==
    /\ editingPayers
    /\ totalCents = <<100>>
    /\ editPayments = <<[participantId |-> "p1", amount |-> 50]>>
    /\ payerError = MustEqualTotal
    /\ requests = <<>>
    /\ storedPayments = <<[participant_id |-> "p1", amount |-> 100]>>

\* C28: after a payer update whose insert failed, the payments stored for the
\* receipt are still the ones stored before the update (the ones the page
\* fetched last and still shows).
C28_FailedInsertKeepsPayments ==
    error = FailedToUpdatePayers => storedPayments = shownPayments


\* the rounded-down quotient, found by search rather than by division
FloorOf(total, n) == CHOOSE q \in 0..total : q * n <= total /\ total < (q + 1) * n

EvenlySplit(old, new, total) ==
    IF Len(old) = 0 THEN new = old
    ELSE /\ Len(new) = Len(old)
         /\ \A k \in 1..Len(old) : new[k].participantId = old[k].participantId
         /\ Sum([k \in 1..Len(new) |-> new[k].amount]) = total
         /\ \A k \in 2..Len(new) : new[k].amount = FloorOf(total, Len(old))
         /\ new[1].amount = FloorOf(total, Len(old))
                               + (total - Len(old) * FloorOf(total, Len(old)))

(***************************************************************************)
(* C29: splitEvenly with n >= 1 payers and a total of T cents keeps the    *)
(* same payers in the same order and sets amounts that sum to exactly T:   *)
(* every payer gets floor(T / n) and the first payer additionally the      *)
(* remainder T - n * floor(T / n); with no payers it changes nothing.      *)
(* Stated of the function on every list of payers the picker can hold, and *)
(* of every click on "Split evenly".                                       *)
(***************************************************************************)
C29_SplitEvenly ==
    /\ [](EvenlySplit(editPayments, splitEvenly(editPayments, ReceiptTotal), ReceiptTotal))
    /\ [][SplitEvenly => EvenlySplit(editPayments, editPayments', ReceiptTotal)]_vars

\* 101 cents among three payers: 33 each and the remainder of 2 to the first
C29_Witness ==
    /\ pc = "picker"
    /\ totalCents = <<101>>
    /\ editPayments = <<[participantId |-> "p2", amount |-> 35],
                        [participantId |-> "p1", amount |-> 33],
                        [participantId |-> "p3", amount |-> 33]>>


(***************************************************************************)
(* Properties of the assignment editors                                    *)
(***************************************************************************)
HandedLists == {calls[i].newAssignments : i \in 1..Len(calls)}

(***************************************************************************)
(* C26: after any sequence of assignment edits through the UI (adding      *)
(* participants, changing a ratio, committing an edited amount, the chips  *)
(* popover), every shares value handed to onSharesChange and               *)
(* onAssignmentChange is an integer >= 1.  Every value handed to           *)
(* onSharesChange is in the list LineItemCard hands to onAssignmentChange, *)
(* which starts a call.                                                    *)
(***************************************************************************)
C26_SharesAtLeastOne ==
    \A list \in HandedLists : \A k \in 1..Len(list) :
        list[k].shares \in Nat /\ list[k].shares >= 1

\* a ratio of 0 typed over a ratio of 2: the row is handed on with 1 share
C26_Witness ==
    /\ pc = "SplitEditor"
    /\ newRatios = <<>>
    /\ assignments = <<[participant_id |-> "p1", shares |-> 2],
                       [participant_id |-> "p2", shares |-> 1]>>
    /\ calls = <<[newAssignments |-> <<[participant_id |-> "p1", shares |-> 1],
                                       [participant_id |-> "p2", shares |-> 1]>>,
                  at |-> "delete"]>>

Changed == {k \in 1..Len(newRatios) : newRatios[k].shares /= newRatios[k].was}
Holds(row) ==
    \E j \in 1..Len(storedAssignments) :
        /\ storedAssignments[j].participant_id = row.participant_id
        /\ storedAssignments[j].shares = row.shares

(***************************************************************************)
(* C27: when committing an edited amount changed the ratio of more than    *)
(* one participant, then once all the resulting calls have returned every  *)
(* assignment of the item holds its newly computed ratio.                  *)
(***************************************************************************)
C27_NoUpdateLost ==
    ((\A i \in 1..Len(calls) : calls[i].at = "returned") /\ Cardinality(Changed) > 1) =>
        \A k \in 1..Len(newRatios) : Holds(newRatios[k])

NoRepeat(list) ==
    \A j, k \in 1..Len(list) : list[j].participant_id = list[k].participant_id => j = k

(***************************************************************************)
(* C30: after any sequence of add, remove and shares-change operations on  *)
(* a line item, no participant id occurs more than once among the item's   *)
(* assignments, stored or shown.                                           *)
(***************************************************************************)
C30_NoParticipantTwice == NoRepeat(storedAssignments) /\ NoRepeat(assignments)

\* two calls overlapped and the table refused the rows of the later insert
C30_Witness ==
    /\ error = SaveAssignmentsFailed
    /\ Len(storedAssignments) = 2
    /\ \E i \in 1..Len(calls) : calls[i].at = "fetch" /\ Len(calls[i].newAssignments) = 2

====
